---------------------------- MODULE Spec2Model ----------------------------
(***************************************************************************)
(* rotation_logger: a tee that copies standard input to standard output    *)
(* and to a sequence of time-stamped log files, rotated by size and age    *)
(* and purged beyond a retention count.                                    *)
(*                                                                         *)
(* The repository holds two revisions of the program, v1.1.5               *)
(* (src/rotation_logger.c) and v1.1.8 (src/unnamed/part_001).  They differ *)
(* in the stream of the start-up messages, in the type of sizeLimit/value  *)
(* (size_t against long) and in the --warranty option; the variable        *)
(* `version` says which revision runs.                                     *)
(*                                                                         *)
(* Machine integers.  TLC's integers are 32 bit, so the 64-bit types       *)
(* (long, size_t, time_t) are modelled 30 bits wide and int 24 bits wide,  *)
(* with the conversions of the C code (wrap of unsigned arithmetic,        *)
(* truncation of long to int) done modulo these widths.                    *)
(***************************************************************************)
EXTENDS Integers, Sequences, FiniteSets, TLC

\* ------------------------------------------------------------------------
\* Bounds of the model
\* ------------------------------------------------------------------------
\* chunks one run reads before its input ends
MaxReads == 2
\* calls of write(), creat() and scandir() that fail or come up short in
\* one run
MaxFaults == 1
\* options on one command line
MaxOpts == 2

\* ------------------------------------------------------------------------
\* Machine integers
\* ------------------------------------------------------------------------
LongMod == 2^30
IntMod  == 2^24
LongMax == (LongMod \div 2) - 1
LongMin == 0 - (LongMod \div 2)

\* the value of a bit pattern of a long, read as signed
AsLong(u) == IF u >= LongMod \div 2 THEN u - LongMod ELSE u
\* the bit pattern of an integer stored in a long / size_t
ToWord(x) == x % LongMod
\* `int i = <long or size_t>`: the low bits, read as signed
ToInt(u) == LET r == u % IntMod IN IF r >= IntMod \div 2 THEN r - IntMod ELSE r

\* a * b modulo LongMod, by doubling, so that no intermediate leaves TLC's range
RECURSIVE MulWord(_, _)
MulWord(a, b) ==
    IF b = 0 THEN 0
    ELSE LET h == MulWord((a + a) % LongMod, b \div 2)
         IN  IF b % 2 = 1 THEN (h + a) % LongMod ELSE h

\* what an operation whose behaviour is undefined (signed overflow, a
\* conversion whose input does not fit) may leave in a long: the wrapped
\* value w, or any other bit pattern; these stand for the others
UndefinedLong(w) == {w, 0, ToWord(LongMax), ToWord(LongMin), ToWord(0 - 1)}
UndefinedInt(w)  == {ToInt(w), 0, 1, 0 - 1, (IntMod \div 2) - 1, 0 - (IntMod \div 2)}

\* ------------------------------------------------------------------------
\* Text: a string is a sequence of one-character strings
\* ------------------------------------------------------------------------
Digits == {"0", "1", "2", "3", "4", "5", "6", "7", "8", "9"}

DigitVal(c) ==
    CASE c = "0" -> 0 [] c = "1" -> 1 [] c = "2" -> 2 [] c = "3" -> 3
      [] c = "4" -> 4 [] c = "5" -> 5 [] c = "6" -> 6 [] c = "7" -> 7
      [] c = "8" -> 8 [] c = "9" -> 9

\* index of the first character of s at or after i that is not in cs
\* (Len(s) + 1 when there is none)
RECURSIVE SkipWhile(_, _, _)
SkipWhile(s, i, cs) ==
    IF i <= Len(s) /\ s[i] \in cs THEN SkipWhile(s, i + 1, cs) ELSE i

\* the number written by the digits s[i..j-1], or LongMax + 2 when it is
\* larger than LongMax + 1 (it fits no long, of either sign)
RECURSIVE Magnitude(_, _, _, _)
Magnitude(s, i, j, acc) ==
    IF i >= j THEN acc
    ELSE IF acc > (LongMax + 1 - DigitVal(s[i])) \div 10 THEN LongMax + 2
    ELSE Magnitude(s, i + 1, j, 10 * acc + DigitVal(s[i]))

\* strtol's reading of the start of s: white space, a sign, digits.
\* [ok: digits were found, neg, mag, next: index after the digits,
\*  empty: the input ended before anything was read]
ScanLong(s) ==
    LET i0 == SkipWhile(s, 1, {" "})
        sg == i0 <= Len(s) /\ s[i0] \in {"-", "+"}
        i1 == IF sg THEN i0 + 1 ELSE i0
        j  == SkipWhile(s, i1, Digits)
    IN  [ok    |-> j > i1,
         neg   |-> sg /\ s[i0] = "-",
         mag   |-> Magnitude(s, i1, j, 0),
         next  |-> j,
         empty |-> i0 > Len(s)]

\* the longs a scanned number may be stored as: its value when it fits,
\* anything when it does not (the conversion is undefined then)
ScannedLongs(r) ==
    IF r.mag <= LongMax THEN {ToWord(IF r.neg THEN 0 - r.mag ELSE r.mag)}
    ELSE IF r.neg /\ r.mag = LongMax + 1 THEN {ToWord(LongMin)}
    ELSE UndefinedLong(ToWord(IF r.neg THEN LongMin ELSE LongMax))

\* sscanf (optarg, "%ld%c", &value, &xx) with value = 0 and xx = ' ' before:
\* the set of [n: the return value, value: bit pattern, xx]
Sscanf(s) ==
    LET r == ScanLong(s)
    IN  IF ~r.ok
        THEN {[n |-> IF r.empty THEN 0 - 1 ELSE 0, value |-> 0, xx |-> " "]}
        ELSE {[n     |-> IF r.next <= Len(s) THEN 2 ELSE 1,
               value |-> v,
               xx    |-> IF r.next <= Len(s) THEN s[r.next] ELSE " "]
              : v \in ScannedLongs(r)}

\* atoi (optarg): (int) strtol (optarg, NULL, 10); 0 when there is no
\* number, undefined when the number does not fit an int
Atoi(s) ==
    LET r == ScanLong(s)
        v == IF r.neg THEN 0 - r.mag ELSE r.mag
    IN  IF ~r.ok THEN {0}
        ELSE IF r.mag <= (IntMod \div 2) - 1 THEN {v}
        ELSE IF r.mag <= LongMax THEN UndefinedInt(ToWord(v))
        ELSE UndefinedInt(ToWord(0 - 1))

\* `value *= k`: size_t arithmetic wraps (v1.1.5); long arithmetic is
\* undefined when the product does not fit (v1.1.8)
TimesUnsigned(u, k) == {MulWord(u, k)}
TimesSigned(u, k) ==
    LET v == AsLong(u)
        a == IF v < 0 THEN 0 - v ELSE v
    IN  IF a <= LongMax \div k THEN {ToWord(v * k)}
        ELSE UndefinedLong(MulWord(u, k))

\* a switch (xx) of case 'a' without its else branch
AgeUnitUnchecked(xx) ==
    CASE xx = "m" -> 60 [] xx = "h" -> 3600
      [] xx = "d" -> 86400 [] xx = "w" -> 604800 [] OTHER -> 1

\* the multiplier of a qualifier of --age / --size, 0 for a character that
\* is none, 1 for the blank
AgeUnit(xx) ==
    CASE xx = " " -> 1 [] xx = "m" -> 60 [] xx = "h" -> 3600
      [] xx = "d" -> 86400 [] xx = "w" -> 604800 [] OTHER -> 0
SizeUnit(xx) ==
    CASE xx = " " -> 1 [] xx = "K" -> 1000 [] xx = "M" -> 1000000
      [] xx = "G" -> 1000000000 [] OTHER -> 0

\* ------------------------------------------------------------------------
\* Bytes, streams and file names
\* ------------------------------------------------------------------------
\* The k-th byte of standard input is written k when it is not '\n' and -k
\* when it is: every input byte is told from every other one, and the only
\* thing the program ever asks of a byte is whether it is '\n'.  0 is the
\* '\n' the program itself writes (newline[0] at a rotation).
Newline == 0
IsNewline(b) == b <= 0

\* a chunk of len bytes that follow offset off of the input, with a '\n'
\* at position p (none when p = 0)
Chunk(off, len, p) ==
    [i \in 1..len |-> IF i = p THEN 0 - (off + i) ELSE off + i]

Take(s, k) == IF k <= 0 THEN <<>> ELSE SubSeq(s, 1, IF k < Len(s) THEN k ELSE Len(s))

\* the chunks read() returns in the model, of all those of 1..2000 bytes:
\* 19 bytes that do not end a line, and 20 bytes that do
ChunkKinds == { [len |-> 19, nl |-> 0], [len |-> 20, nl |-> 20] }
\* the seconds the clock advances while read() blocks
ReadWaits == {0, 1, 10}

\* Lines of text the program prints: each line or block is one element of
\* the stream it goes to, numbered from 1000 so that it is no input byte
Text(k) == 1000 + k
UsageText     == Text(1)
HelpText      == Text(2)
VersionText   == Text(3)
WarrantyText  == Text(4)
ModifierText  == Text(5)
MissingText   == Text(6)
StatusText    == Text(7)
NoWarrantyText == Text(8)
MismatchText  == Text(9)
PerrorText    == Text(10)
IsText(b) == b >= 1000

\* Names are strings of character codes (ASCII), compared as strcmp does.
\* strftime (timeImage, ..., "%Y-%m-%d_%H-%M-%S", localtime (&t)): the model's
\* clock stays within one hour of one day, so the images differ in the
\* minute and second fields only: "2022-05-01_16-MM-SS"
TimeImage(t) ==
    <<50, 48, 50, 50, 45, 48, 53, 45, 48, 49, 95, 49, 54, 45>>
    \o << 48 + ((t \div 600) % 6), 48 + ((t \div 60) % 10), 45,
           48 + ((t % 60) \div 10), 48 + (t % 10) >>

\* argv [optind]: the prefix, "p"
Prefix == <<112>>

\* snprintf (thePrefix, sizeof (thePrefix), "%s_", prefix)
thePrefix == Prefix \o <<95>>

\* ".log"
DotLog == <<46, 108, 111, 103>>

\* the file name nextFile makes from time (&timeNow), without the
\* directory: "%s_%s.log" of prefix and timeImage
FileName(t) == Prefix \o <<95>> \o TimeImage(t) \o DotLog

\* a prefixFilter that lets every entry through
prefixFilterAll(name) == TRUE

\* prefixFilter (entry), for the entry of that name: the length, the
\* prefix and the suffix; the date part is not looked at
prefixFilter(name) ==
    LET pl == Len(thePrefix)
        dl == Len(name)
    IN  /\ dl = pl + 23
        /\ SubSeq(name, 1, pl) = thePrefix
        /\ SubSeq(name, dl - 3, dl) = DotLog

\* strcmp order of two names (alphasort): the first character in which
\* they differ decides, and a name is after each of its proper prefixes
NameLess(a, b) ==
    LET n    == IF Len(a) < Len(b) THEN Len(a) ELSE Len(b)
        diff == { i \in 1..n : a[i] # b[i] }
    IN  IF diff = {} THEN Len(a) < Len(b)
        ELSE LET i == CHOOSE k \in diff : \A j \in diff : k <= j
             IN  a[i] < b[i]

\* the names of S in ascending order
SortNames(S) ==
    [i \in 1..Cardinality(S) |->
        CHOOSE x \in S : Cardinality({ y \in S : NameLess(y, x) }) = i - 1]

\* the descriptor creat() returns on failure
BadFd == <<>>

\* ------------------------------------------------------------------------
\* The directory path: make_dir and mkdir_parents
\* ------------------------------------------------------------------------
\* A path is a string of "/" and one-letter names.  The file system is seen
\* through the prefixes of the directory argument only: t[d] is what the
\* prefix of d names is: nothing, a directory, a directory in which no
\* entry may be made, a regular file, a symbolic link to nothing, or a
\* directory this run has made.
Kinds == {"none", "dir", "rodir", "file", "link", "made"}
IsDir(k) == k \in {"dir", "rodir", "made"}

\* the number of names in the path p
Depth(p) ==
    Cardinality({ i \in 1..Len(p) : p[i] # "/" /\ (i = 1 \/ p[i - 1] = "/") })

\* what p names in t; the root and the working directory are directories
KindAt(t, p) == IF Depth(p) = 0 THEN "dir" ELSE t[Depth(p)]

\* every directory on the way to the last name of p can be searched
Searchable(t, p) == \A i \in 1..(Depth(p) - 1) : IsDir(t[i])

\* stat (p, &st) == 0: p names something, symbolic links followed
StatOk(t, p) ==
    /\ p # <<>>
    /\ Searchable(t, p)
    /\ IsDir(KindAt(t, p)) \/ KindAt(t, p) = "file"

\* mkdir (p, mode): "ok", "EEXIST" (p names something, be it a file or a
\* symbolic link to nothing), or "error" (ENOENT, ENOTDIR, EACCES)
Mkdir(t, p) ==
    IF p = <<>> \/ ~Searchable(t, p) THEN "error"
    ELSE IF KindAt(t, p) # "none" THEN "EEXIST"
    ELSE IF Depth(p) > 1 /\ t[Depth(p) - 1] = "rodir" THEN "error"
    ELSE "ok"

\* a make_dir without the S_ISDIR test
make_dir_any_kind(t, p) ==
    IF StatOk(t, p) THEN [ok |-> TRUE, tree |-> t, err |-> <<>>]
    ELSE IF Mkdir(t, p) = "ok"
         THEN [ok |-> TRUE, tree |-> [t EXCEPT ![Depth(p)] = "made"], err |-> <<>>]
         ELSE [ok |-> Mkdir(t, p) = "EEXIST", tree |-> t,
               err |-> IF Mkdir(t, p) = "EEXIST" THEN <<>> ELSE <<PerrorText>>]

\* make_dir (dirpath, mode): [ok: its result, tree: the file system after
\* it, err: what it wrote to standard error]
make_dir(t, p) ==
    IF ~StatOk(t, p)
    THEN CASE Mkdir(t, p) = "ok" ->
                [ok |-> TRUE, tree |-> [t EXCEPT ![Depth(p)] = "made"], err |-> <<>>]
           [] Mkdir(t, p) = "EEXIST" ->
                [ok |-> TRUE, tree |-> t, err |-> <<>>]
           [] OTHER ->
                [ok |-> FALSE, tree |-> t, err |-> <<PerrorText>>]
    ELSE IF ~IsDir(KindAt(t, p))
         THEN [ok |-> FALSE, tree |-> t, err |-> <<PerrorText>>]
         ELSE [ok |-> TRUE, tree |-> t, err |-> <<>>]

\* strchr (pp, '/'): the index of the first "/" of p at or after pp, 0 when
\* there is none
Strchr(p, pp) ==
    LET at == { i \in pp..Len(p) : p[i] = "/" }
    IN  IF at = {} THEN 0 ELSE CHOOSE i \in at : \A j \in at : i <= j

\* the loop of mkdir_parents from pp on, and the make_dir of the whole path
RECURSIVE MkdirFrom(_, _, _)
MkdirFrom(t, p, pp) ==
    LET sp == Strchr(p, pp)
    IN  IF sp = 0 THEN make_dir(t, p)
        ELSE IF sp # pp
             THEN LET r == make_dir(t, SubSeq(p, 1, sp - 1))
                  IN  IF r.ok THEN MkdirFrom(r.tree, p, sp + 1) ELSE r
             ELSE MkdirFrom(t, p, sp + 1)

\* a mkdir_parents that makes the last directory only
mkdir_last_only(t, p) == make_dir(t, p)

\* mkdir_parents (dirpath, mode)
mkdir_parents(t, p) == MkdirFrom(t, p, 1)

\* scandir (p, ...) and creat (p/..., 0644) can work at all: p is a
\* directory, and for creat one in which entries may be made
Listable(t, p) == p # <<>> /\ Searchable(t, p) /\ IsDir(KindAt(t, p))
Writable(t, p) == Listable(t, p) /\ KindAt(t, p) # "rodir"

\* ------------------------------------------------------------------------
\* State
\* ------------------------------------------------------------------------
VARIABLES
    version,        \* "1.1.5" (rotation_logger.c) or "1.1.8" (unnamed/part_001)
    opts,           \* the options getopt_long has still to return
    npos,           \* the number of non-option arguments (argc - optind)
    path,           \* argv [optind]: the directory
    inputChunks,    \* the number of chunks the input holds at most
    tree,           \* the file system along path: a kind for each prefix
    pc,             \* where main is
    exitCode,       \* main's return value, -1 while it runs
    ageLimit,       \* int
    sizeLimit,      \* size_t (v1.1.5) / long (v1.1.8), as a bit pattern
    numberToKeep,   \* int
    clock,          \* what time() returns now
    dir,            \* the entries of the directory: name -> [data,
                    \* deletable: unlink() on it succeeds, kind]
    faults,         \* calls of write(), creat(), scandir() that failed so far
    fd,             \* the descriptor of the log file: its name, or BadFd
    isOpen,         \* the names of the files the process holds open
    started,        \* the first file was opened and the loop entered
    lastTime,       \* time_t
    thisTime,       \* time_t
    total,          \* size_t, as a bit pattern
    last_char,      \* char
    buffer,         \* the bytes the last read() returned
    numberRead,     \* ssize_t
    inp,            \* the bytes read from standard input so far
    out,            \* what standard output received
    err,            \* what the last step wrote to standard error
    logs,           \* history: one record per file created, in order:
                    \* [name, data, closed: "no", "rotation" or "end",
                    \*  nl: <<m>> when the write of a newline at the
                    \*  rotation returned m, <<>> when there was none]
    chunks,         \* history: one record per chunk written:
                    \* [off, len: where it is in inp, m1, m2: what the two
                    \*  writes returned, log: the index in logs of the file
                    \*  that was open, 0 when none was]
    listed          \* history: the last scandir() succeeded

argVars  == <<version, opts, npos, path, inputChunks>>
policy   == <<ageLimit, sizeLimit, numberToKeep>>
envVars  == <<clock, dir, faults>>
quiet    == <<>>
loopVars == <<fd, isOpen, started, lastTime, thisTime, total, last_char,
              buffer, numberRead>>
ioVars   == <<inp, out>>
histVars == <<logs, chunks, listed>>
vars == <<argVars, tree, pc, exitCode, policy, envVars, loopVars, ioVars, err,
         histVars>>

Versions == {"1.1.5", "1.1.8"}

Opt(o, a) == [opt |-> o, arg |-> a]

\* the command lines of the runs that are followed through the copy loop:
\* both floors (10 s, 20 bytes) with --keep 1 and 2, and one for each of
\* the ways to leave before the loop
RunOpts ==
    { << Opt("a", <<"5">>), Opt("s", <<"2", "0">>), Opt("k", <<"1">>) >>,
      << Opt("a", <<"1", "0">>), Opt("s", <<"5">>), Opt("k", <<"2">>) >>,
      << Opt("h", <<>>) >>, << Opt("v", <<>>) >>, << Opt("w", <<>>) >>,
      << Opt("?", <<>>) >>, << Opt("a", <<"x">>) >>, << Opt("s", <<"1", "x">>) >> }

\* the arguments of --age, --size and --keep the argument model is run on
ArgTexts ==
    { <<"0">>, <<"5">>, <<"-", "5">>, <<"1", "0">>, <<"2", "5">>,
      <<"6", "h">>, <<"6", "h", "x">>, <<"1", "4", "w">>, <<"2", "K">>, <<"1", "G">>, <<"3", " ">>, <<"1", "x">>,
      <<"h">>, <<>>, <<" ", "+", "7">>,
      <<"9", "9", "9", "9", "9", "9", "9", "9", "9", "9">>,
      <<"-", "9", "9", "9", "9", "9", "9", "9", "9", "9", "9">> }
Options ==
    { Opt(o, a) : o \in {"a", "s", "k"}, a \in ArgTexts }
    \cup { Opt(o, <<>>) : o \in {"h", "v", "w", "?"} }
RECURSIVE SeqsUpTo(_, _)
SeqsUpTo(S, n) ==
    IF n = 0 THEN { <<>> }
    ELSE LET shorter == SeqsUpTo(S, n - 1)
         IN  shorter \cup { Append(q, x) : q \in shorter, x \in S }
WideOpts == SeqsUpTo(Options, MaxOpts)

File(d, del) == [data |-> d, deletable |-> del, kind |-> "file"]
\* a subdirectory of the directory: unlink() refuses it (EISDIR)
SubDir == [data |-> <<>>, deletable |-> FALSE, kind |-> "dir"]
\* what the directory may hold when the program starts: log files of
\* earlier runs, one of them (in the third case) a file that
\* unlink() refuses, and a name that sorts after every time stamp of the run
Old1 == FileName(1)
Old2 == FileName(2)
High == FileName(3599)
PreExisting ==
    { <<>>,
      (Old1 :> File(<<>>, TRUE)) @@ (Old2 :> File(<<>>, TRUE)),
      (Old1 :> File(<<>>, FALSE)) @@ (Old2 :> File(<<>>, TRUE)),
      (Old1 :> File(<<>>, TRUE)) @@ (High :> File(<<>>, TRUE)) }

\* the clock when the program starts: three seconds before a full minute
StartClock == 60 - 3

InitWith(optSet, nposSet, dirSet) ==
    /\ version \in Versions
    /\ opts \in optSet
    /\ npos \in nposSet
    /\ pc = "getopt"
    /\ exitCode = 0 - 1
    /\ ageLimit = 24 * 3600
    /\ sizeLimit = 50 * 1000 * 1000
    /\ numberToKeep = 40
    /\ clock = StartClock
    /\ dir \in dirSet
    /\ faults = 0
    /\ fd = BadFd
    /\ isOpen = {}
    /\ started = FALSE
    /\ lastTime = 0
    /\ thisTime = 0
    /\ total = 0
    /\ last_char = Newline
    /\ buffer = <<>>
    /\ numberRead = 0
    /\ inp = <<>>
    /\ out = <<>>
    /\ err = <<>>
    /\ logs = <<>>
    /\ chunks = <<>>
    /\ listed = FALSE

\* the directory arguments: one name, an absolute path, a path with an
\* empty name and a "/" at its end, and a path of three names
RunPath == <<"a", "/", "b">>
Paths ==
    { <<"a">>, <<"/", "a", "/", "b">>, <<"a", "/", "/", "b", "/">>,
      <<"a", "/", "b", "/", "c">> }

\* the file systems along a path of n names: nothing is below what is not
\* a directory
Trees(n) ==
    { t \in [1..n -> Kinds \ {"made"}] :
        \A i \in 1..(n - 1) : ~IsDir(t[i]) => t[i + 1] = "none" }

\* the older revision is run on an empty directory only; a directory that
\* holds files of earlier runs exists, an empty one is still to be made
Init ==
    /\ inputChunks = MaxReads
    /\ InitWith(RunOpts, {1, 2}, PreExisting)
    /\ version = "1.1.5" => dir = <<>>
    /\ path = RunPath
    /\ tree = <<"dir", IF dir = <<>> THEN "none" ELSE "dir">>
ArgInit ==
    /\ inputChunks = MaxReads
    /\ InitWith(WideOpts, {0, 1, 2, 3}, { <<>> })
    /\ path = RunPath
    /\ tree = <<"dir", "none">>
\* what else the directory may hold: a file whose 19 middle characters are
\* no date ("xxx..."), a file of another prefix ("q_"), of another length,
\* of another suffix (".txt"), a subdirectory with the name of a log file
\* and one with another name ("sub")
OddName     == thePrefix \o [i \in 1..19 |-> 120] \o DotLog
OtherPrefix == <<113, 95>> \o TimeImage(1) \o DotLog
OtherLength == thePrefix \o SubSeq(TimeImage(1), 1, 18) \o DotLog
OtherSuffix == thePrefix \o TimeImage(1) \o <<46, 116, 120, 116>>
SubLog      == FileName(3)
SubOther    == <<115, 117, 98>>
Entries ==
    (Old1 :> File(<<>>, TRUE)) @@ (Old2 :> File(<<>>, TRUE))
    @@ (OddName :> File(<<>>, TRUE)) @@ (OtherPrefix :> File(<<>>, TRUE))
    @@ (OtherLength :> File(<<>>, TRUE)) @@ (OtherSuffix :> File(<<>>, TRUE))
    @@ (SubLog :> SubDir) @@ (SubOther :> SubDir)
FilterDirs == { [x \in S |-> Entries[x]] : S \in SUBSET (DOMAIN Entries) }

\* --keep 1 or 2 on a directory that exists and holds any of these entries
FilterInit ==
    /\ inputChunks = MaxReads
    /\ InitWith({ << Opt("k", <<"1">>) >>, << Opt("k", <<"2">>) >> }, {2},
                FilterDirs)
    /\ path = RunPath
    /\ tree = <<"dir", "dir">>

\* the older revision with --age 5 and --size -1, which its size_t takes
\* for the largest size there is, on an input of one chunk more
RetryInit ==
    /\ inputChunks = MaxReads + 1
    /\ version = "1.1.5"
    /\ InitWith({ << Opt("a", <<"5">>), Opt("s", <<"-", "1">>) >> }, {2}, { <<>> })
    /\ path = RunPath
    /\ tree = <<"dir", "none">>

\* no options, a directory and a prefix, any of the paths and file systems
DirInit ==
    /\ inputChunks = MaxReads
    /\ InitWith({ <<>> }, {2}, { <<>> })
    /\ path \in Paths
    /\ tree \in Trees(Depth(path))

\* ------------------------------------------------------------------------
\* main: the options
\* ------------------------------------------------------------------------
Return(code) ==
    /\ pc' = "exit"
    /\ exitCode' = code

\* what getopt_long returns for the next option: "w" is an option of
\* v1.1.8 only, and is an invalid option ('?') for v1.1.5
OptChar(o) == IF o.opt = "w" /\ version = "1.1.5" THEN "?" ELSE o.opt

AtOption(c) ==
    /\ pc = "getopt"
    /\ opts # <<>>
    /\ OptChar(Head(opts)) = c

\* a step that prints text on standard output and returns code
PrintAndReturn(text, code) ==
    /\ out' = out \o text
    /\ err' = quiet
    /\ Return(code)
    /\ UNCHANGED <<argVars, tree, policy, envVars, loopVars, inp, histVars>>

\* case 'h': printHelp (); return 0;
OptHelp == AtOption("h") /\ PrintAndReturn(<<HelpText>>, 0)

\* case 'v': printf ("rotation_logger version ..."); return 0;
OptVersion == AtOption("v") /\ PrintAndReturn(<<VersionText>>, 0)

\* case 'w' (v1.1.8): printWarranty (); return 0;
OptWarranty == AtOption("w") /\ PrintAndReturn(<<WarrantyText>>, 0)

\* case '?': printUsage (); return 1;
OptInvalid == AtOption("?") /\ PrintAndReturn(<<UsageText>>, 1)

\* `value *= k` in the type value has in this version
Times(u, k) == IF version = "1.1.5" THEN TimesUnsigned(u, k) ELSE TimesSigned(u, k)

\* switch (xx) of case 'a' and of case 's'
Unit(option, xx) == IF option = "a" THEN AgeUnit(xx) ELSE SizeUnit(xx)

\* the body shared by case 'a' and case 's': the scan and the qualifier.
\* [usage: the lines printed before return 1, <<>> when there is no error;
\*  value: what is assigned to the limit]
Qualified(arg, option) ==
    UNION { { [usage |-> IF r.n < 1 THEN <<UsageText>>
                         ELSE IF r.n = 2 /\ Unit(option, r.xx) = 0
                              THEN <<ModifierText, UsageText>>
                         ELSE <<>>,
               value |-> v]
              : v \in IF r.n = 2 /\ Unit(option, r.xx) > 1
                      THEN Times(r.value, Unit(option, r.xx))
                      ELSE {r.value} }
            : r \in Sscanf(arg) }

\* ageLimit = value: a long or size_t stored in an int
AgeOf(value) == ToInt(value)

\* case 'a'
OptAge ==
    /\ AtOption("a")
    /\ \E q \in Qualified(Head(opts).arg, "a") :
         IF q.usage # <<>>
         THEN PrintAndReturn(q.usage, 1)
         ELSE /\ ageLimit' = AgeOf(q.value)
              /\ opts' = Tail(opts)
              /\ err' = quiet
              /\ UNCHANGED <<version, npos, path, inputChunks, tree, pc, exitCode, sizeLimit, numberToKeep,
                             envVars, loopVars, ioVars, histVars>>

\* case 's'
OptSize ==
    /\ AtOption("s")
    /\ \E q \in Qualified(Head(opts).arg, "s") :
         IF q.usage # <<>>
         THEN PrintAndReturn(q.usage, 1)
         ELSE /\ sizeLimit' = q.value
              /\ opts' = Tail(opts)
              /\ err' = quiet
              /\ UNCHANGED <<version, npos, path, inputChunks, tree, pc, exitCode, ageLimit, numberToKeep,
                             envVars, loopVars, ioVars, histVars>>

\* case 'k': numberToKeep = atoi (optarg);
OptKeep ==
    /\ AtOption("k")
    /\ \E k \in Atoi(Head(opts).arg) : numberToKeep' = k
    /\ opts' = Tail(opts)
    /\ err' = quiet
    /\ UNCHANGED <<version, npos, path, inputChunks, tree, pc, exitCode, ageLimit, sizeLimit,
                   envVars, loopVars, ioVars, histVars>>

\* `sizeLimit < 20`: sizeLimit is a size_t in v1.1.5 and a long in v1.1.8
SizeBelow(u, floor) ==
    IF version = "1.1.5" THEN u < floor ELSE AsLong(u) < floor

\* "Santise options": the three floors
SaneAge(a)  == IF a < 10 THEN 10 ELSE a
SaneSize(u) == IF SizeBelow(u, 20) THEN 20 ELSE u
SaneKeep(k) == IF k < 1 THEN 1 ELSE k

\* getopt_long returns -1; the warranty line (v1.1.8); the floors
Sanitise ==
    /\ pc = "getopt"
    /\ opts = <<>>
    /\ err' = IF version = "1.1.8" THEN <<NoWarrantyText>> ELSE quiet
    /\ ageLimit' = SaneAge(ageLimit)
    /\ sizeLimit' = SaneSize(sizeLimit)
    /\ numberToKeep' = SaneKeep(numberToKeep)
    /\ pc' = "args"
    /\ UNCHANGED <<argVars, tree, exitCode, envVars, loopVars, ioVars, histVars>>

\* the stream of the four start-up lines: printf in v1.1.5, fprintf
\* (stderr, ...) in v1.1.8
StatusToStdout == version = "1.1.5"

\* numberArgs < 2: usage, return 1; else the four start-up lines
CheckArgs ==
    /\ pc = "args"
    /\ IF npos < 2
       THEN PrintAndReturn(<<MissingText, UsageText>>, 1)
       ELSE /\ out' = IF StatusToStdout THEN out \o <<StatusText>> ELSE out
            /\ err' = IF StatusToStdout THEN quiet ELSE <<StatusText>>
            /\ pc' = "mkdir"
            /\ UNCHANGED <<argVars, tree, exitCode, policy, envVars, loopVars, inp,
                           histVars>>

ArgNext ==
    \/ OptHelp \/ OptVersion \/ OptWarranty \/ OptInvalid
    \/ OptAge \/ OptSize \/ OptKeep
    \/ Sanitise \/ CheckArgs

ArgSpec == ArgInit /\ [][ArgNext]_vars

\* ------------------------------------------------------------------------
\* main: start-up
\* ------------------------------------------------------------------------
\* a write(), creat() or scandir() may fail only while the run's budget lasts
MayFail == faults < MaxFaults

\* okay = mkdir_parents (directory, 0755); if (!okay) { perrorf; return 2; }
MkdirParents ==
    /\ pc = "mkdir"
    /\ LET r == mkdir_parents(tree, path)
       IN  /\ tree' = r.tree
           /\ IF r.ok
              THEN /\ pc' = "purge"
                   /\ err' = quiet
                   /\ exitCode' = exitCode
              ELSE /\ err' = r.err \o <<PerrorText>>
                   /\ Return(2)
    /\ UNCHANGED <<argVars, policy, envVars, loopVars, ioVars, histVars>>

\* ------------------------------------------------------------------------
\* purgeOldFiles and nextFile
\* ------------------------------------------------------------------------
\* what scandir (directory, &namelist, prefixFilter, alphasort) lists
Scandir(d) == SortNames({ x \in DOMAIN d : prefixFilter(x) })

\* a purge that keeps one file more than DoPurge does
DoPurgeKeepsOneMore(j, n, keep) == j < n - keep - 1

\* bool doPurge = j < (n - numberToKeep), for the j-th (from 0) of n names
DoPurge(j, n, keep) == j < n - keep

\* the names purgeOldFiles calls unlink() on
PurgeList(d, keep) ==
    LET names == Scandir(d)
        n == Len(names)
    IN  { names[i] : i \in { k \in 1..n : DoPurge(k - 1, n, keep) } }

\* a purge that gives up at the first unlink() that fails
UnlinkedUntilFailure(d, victims) ==
    LET bad  == { v \in victims : ~d[v].deletable }
        gone == { v \in victims \ bad : \A b \in bad : NameLess(v, b) }
    IN  [x \in (DOMAIN d) \ gone |-> d[x]]

\* an unlink() that never fails
UnlinkedAlways(d, victims) == [x \in (DOMAIN d) \ victims |-> d[x]]

\* unlink() removes the entry unless it fails
Unlinked(d, victims) ==
    LET gone == { v \in victims : d[v].deletable }
    IN  [x \in (DOMAIN d) \ gone |-> d[x]]

\* purgeOldFiles (directory, prefix, numberToKeep), the first half of
\* nextFile: scandir fails (perrorf, return), or the loop over the names
Purge ==
    /\ pc = "purge"
    /\ \/ /\ ~Listable(tree, path)
          /\ faults' = faults
          /\ err' = <<PerrorText>>
          /\ dir' = dir
          /\ listed' = FALSE
       \/ /\ Listable(tree, path)
          /\ MayFail
          /\ faults' = faults + 1
          /\ err' = <<PerrorText>>
          /\ dir' = dir
          /\ listed' = FALSE
       \/ LET victims == PurgeList(dir, numberToKeep)
              failed  == { v \in victims : ~dir[v].deletable }
          IN  /\ Listable(tree, path)
              /\ dir' = Unlinked(dir, victims)
              /\ err' = [i \in 1..Cardinality(failed) |-> PerrorText]
              /\ faults' = faults
              /\ listed' = TRUE
    /\ pc' = "creat"
    /\ UNCHANGED <<argVars, tree, exitCode, policy, clock, loopVars, ioVars, logs,
                   chunks>>


\* creat (filename, 0644) on directory d: a new empty file, or the file of
\* that name truncated
Created(d, name) ==
    [x \in (DOMAIN d) \cup {name} |->
        IF x = name
        THEN File(<<>>, IF name \in DOMAIN d THEN d[name].deletable ELSE TRUE)
        ELSE d[x]]

\* the values time() may return when the clock read `clock` at the last
\* call, the work since the last pass of the loop (or since the start)
\* taking no more than a second
Slips ==
    LET since == IF started THEN thisTime ELSE StartClock
    IN  { t \in {clock, clock + 1} : t <= since + 1 }

\* the second half of nextFile: time, strftime, creat
Creat ==
    /\ pc = "creat"
    /\ clock' \in Slips
    /\ \/ /\ Writable(tree, path)
          /\ dir' = Created(dir, FileName(clock'))
          /\ fd' = FileName(clock')
          /\ isOpen' = isOpen \cup {FileName(clock')}
          /\ logs' = Append(logs, [name |-> FileName(clock'), data |-> <<>>,
                                    closed |-> "no", nl |-> <<>>])
          /\ err' = quiet
          /\ faults' = faults
       \/ /\ Writable(tree, path) => MayFail
          /\ faults' = IF Writable(tree, path) THEN faults + 1 ELSE faults
          /\ fd' = BadFd
          /\ err' = <<PerrorText>>
          /\ UNCHANGED <<dir, isOpen, logs>>
    /\ pc' = "opened"
    /\ UNCHANGED <<argVars, tree, exitCode, policy, started, lastTime, thisTime, total,
                   last_char, buffer, numberRead, ioVars, chunks, listed>>

\* fd = nextFile (...); if (fd < 0) return 2; time (&lastTime); total = 0;
\* last_char = '\n';
FirstFile ==
    /\ pc = "opened"
    /\ ~started
    /\ IF fd = BadFd
       THEN /\ Return(2)
            /\ UNCHANGED <<clock, started, lastTime, total, last_char>>
       ELSE /\ clock' \in Slips
            /\ lastTime' = clock'
            /\ total' = 0
            /\ last_char' = Newline
            /\ started' = TRUE
            /\ pc' = "read"
            /\ exitCode' = exitCode
    /\ err' = quiet
    /\ UNCHANGED <<argVars, tree, policy, dir, faults, fd, isOpen, thisTime, buffer,
                   numberRead, ioVars, histVars>>

\* ------------------------------------------------------------------------
\* main: the copy loop
\* ------------------------------------------------------------------------
\* numberRead = read (STDIN_FILENO, buffer, sizeof (buffer)) returns a chunk
ReadChunk ==
    /\ pc = "read"
    /\ Len(chunks) < inputChunks
    /\ \E w \in ReadWaits : clock' = clock + w
    /\ \E k \in ChunkKinds :
         /\ buffer' = Chunk(Len(inp), k.len, k.nl)
         /\ numberRead' = k.len
    /\ inp' = inp \o buffer'
    /\ pc' = "write"
    /\ err' = quiet
    /\ UNCHANGED <<argVars, tree, exitCode, policy, dir, faults, fd, isOpen, started,
                   lastTime, thisTime, total, last_char, out, histVars>>

\* numberRead < 0 && errno == EINTR: continue.  The time the interrupted
\* read() took is part of the wait of the read() that follows it.
ReadInterrupted ==
    /\ pc = "read"
    /\ numberRead' = 0 - 1
    /\ err' = quiet
    /\ UNCHANGED <<argVars, tree, pc, exitCode, policy, envVars, fd, isOpen, started,
                   lastTime, thisTime, total, last_char, buffer, ioVars, histVars>>

\* a close() that closes nothing
CloseNothing(open, f) == open

\* the open descriptors after close (f)
Close(open, f) == open \ {f}

\* the history of the files after close (f)
Closed(l, f, how, m) ==
    IF f = BadFd THEN l
    ELSE [l EXCEPT ![Len(l)].closed = how, ![Len(l)].nl = m]

\* numberRead <= 0: break (end of input, or a read error); then, after the
\* loop: perrorf ("read error") if numberRead == -1; close (fd); return 0.
\* This read() waits as any other does.
ReadEnd ==
    /\ pc = "read"
    /\ \E w \in ReadWaits : clock' = clock + w
    /\ \/ /\ numberRead' = 0
          /\ err' = quiet
       \/ /\ numberRead' = 0 - 1
          /\ err' = <<PerrorText>>
    /\ isOpen' = Close(isOpen, fd)
    /\ logs' = Closed(logs, fd, "end", <<>>)
    /\ Return(0)
    /\ UNCHANGED <<argVars, tree, policy, dir, faults, fd, started, lastTime,
                   thisTime, total, last_char, buffer, ioVars, chunks, listed>>

\* what write (f, buf, n) may return: n, or less when it fails or comes up
\* short; always -1 on a descriptor that is not open (EBADF)
WriteResults(n, valid) ==
    IF ~valid THEN {0 - 1}
    ELSE {n} \cup (IF MayFail THEN {0 - 1, n - 1} ELSE {})

\* directory d after the first m bytes of buf are added to the file f
Written(d, f, buf, m) ==
    IF f = BadFd \/ m <= 0 THEN d
    ELSE [d EXCEPT ![f].data = @ \o Take(buf, m)]

\* the same for the history of the files created
Logged(l, f, buf, m) ==
    IF f = BadFd \/ m <= 0 THEN l
    ELSE [l EXCEPT ![Len(l)].data = @ \o Take(buf, m)]

\* a write to standard output that always takes the whole buffer
CopiedWhole(o, buf, m) == o \o buf

\* what standard output holds after write (STDOUT_FILENO, buf, n) returned m
Copied(o, buf, m) == o \o Take(buf, m)

\* total += m2, in size_t
AddTotal(t, m2) == ToWord(t + m2)

\* a loop that reports no mis-match
MismatchSilent(m1, m2) == quiet

\* the message of `if (m1 != m2)`
Mismatch(m1, m2) == IF m1 # m2 THEN <<MismatchText>> ELSE quiet

\* m1 = write (STDOUT_FILENO, ...); m2 = write (fd, ...); total += m2;
\* the mis-match message; last_char; time (&thisTime)
WriteChunk ==
    /\ pc = "write"
    /\ \E m1 \in WriteResults(numberRead, TRUE) :
       \E m2 \in WriteResults(numberRead, fd # BadFd) :
         /\ faults' = faults + (IF m1 # numberRead THEN 1 ELSE 0)
                             + (IF m2 # numberRead /\ fd # BadFd THEN 1 ELSE 0)
         /\ faults' <= MaxFaults
         /\ out' = Copied(out, buffer, m1)
         /\ dir' = Written(dir, fd, buffer, m2)
         /\ logs' = Logged(logs, fd, buffer, m2)
         /\ total' = AddTotal(total, m2)
         /\ err' = Mismatch(m1, m2)
         /\ chunks' = Append(chunks,
                [off |-> Len(inp) - numberRead, len |-> numberRead,
                 m1 |-> m1, m2 |-> m2,
                 log |-> IF fd = BadFd THEN 0 ELSE Len(logs)])
    /\ last_char' = buffer[numberRead]
    /\ thisTime' = clock
    /\ pc' = "check"
    /\ UNCHANGED <<argVars, tree, exitCode, policy, clock, fd, isOpen, started,
                   lastTime, buffer, numberRead, inp, listed>>

\* a test that leaves the age out
RotateOnSizeOnly(age, tot, ageLim, sizeLim) == (tot >= sizeLim) /\ (age >= 1)

\* the test without its one-second guard
RotateOnSizeAlone(age, tot, ageLim, sizeLim) ==
    (age >= ageLim) \/ (tot >= sizeLim)

\* (age >= ageLimit) || ((total >= sizeLimit) && (age >= 1)),
\* with age = thisTime - lastTime
RotateNow(age, tot, ageLim, sizeLim) ==
    (age >= ageLim) \/ ((tot >= sizeLim) /\ (age >= 1))

\* the test at the end of the loop body
Check ==
    /\ pc = "check"
    /\ pc' = IF RotateNow(thisTime - lastTime, total, ageLimit, sizeLimit)
             THEN "rotate" ELSE "read"
    /\ err' = quiet
    /\ UNCHANGED <<argVars, tree, exitCode, policy, envVars, loopVars, ioVars, histVars>>

\* a rotation that appends a newline whatever the last character was
NeedsNewlineAlways(c) == TRUE

\* if (last_char != '\n')
NeedsNewline(c) == ~IsNewline(c)

\* the start of a rotation: write (fd, newline, 1) if needed; close (fd)
CloseOld ==
    /\ pc = "rotate"
    /\ IF NeedsNewline(last_char)
       THEN \E m \in WriteResults(1, fd # BadFd) :
              /\ faults' = faults + (IF m # 1 /\ fd # BadFd THEN 1 ELSE 0)
              /\ dir' = Written(dir, fd, <<Newline>>, m)
              /\ logs' = Closed(Logged(logs, fd, <<Newline>>, m), fd,
                                "rotation", <<m>>)
       ELSE /\ logs' = Closed(logs, fd, "rotation", <<>>)
            /\ UNCHANGED <<faults, dir>>
    /\ isOpen' = Close(isOpen, fd)
    /\ pc' = "purge"
    /\ err' = quiet
    /\ UNCHANGED <<argVars, tree, exitCode, policy, clock, fd, started, lastTime,
                   thisTime, total, last_char, buffer, numberRead, ioVars, chunks,
                   listed>>

\* a rotation that leaves the count as it is
TotalKept(t) == t

\* total = 0
TotalReset(t) == 0

\* the end of a rotation: fd = nextFile (...) has returned;
\* time (&lastTime); total = 0;
Stamp ==
    /\ pc = "opened"
    /\ started
    /\ clock' \in Slips
    /\ lastTime' = clock'
    /\ total' = TotalReset(total)
    /\ pc' = "read"
    /\ err' = quiet
    /\ UNCHANGED <<argVars, tree, exitCode, policy, dir, faults, fd, isOpen, started,
                   thisTime, last_char, buffer, numberRead, ioVars, histVars>>

RunNext ==
    \/ MkdirParents \/ Purge \/ Creat \/ FirstFile
    \/ ReadChunk \/ ReadInterrupted \/ ReadEnd
    \/ WriteChunk \/ Check \/ CloseOld \/ Stamp

Next == ArgNext \/ RunNext

Spec == Init /\ [][Next]_vars

\* the process is not held up: a step that can be taken is taken
FairSpec == Spec /\ WF_vars(Next)

\* main from its first line to the first log file
DirNext == Sanitise \/ CheckArgs \/ MkdirParents \/ Purge \/ Creat \/ FirstFile

DirSpec == DirInit /\ [][DirNext]_vars

\* main with --age and --size
RetryNext == OptAge \/ OptSize \/ Sanitise \/ CheckArgs \/ RunNext

RetrySpec == RetryInit /\ [][RetryNext]_vars

\* main from its first line to the first log file, with --keep
FilterNext ==
    OptKeep \/ Sanitise \/ CheckArgs \/ MkdirParents \/ Purge \/ Creat \/ FirstFile

FilterSpec == FilterInit /\ [][FilterNext]_vars

\* ------------------------------------------------------------------------
\* Properties
\* ------------------------------------------------------------------------
RECURSIVE Concat(_)
Concat(ss) == IF ss = <<>> THEN <<>> ELSE Head(ss) \o Concat(Tail(ss))

\* the log files of the run, one after the other in the order of creation
Stored == Concat([i \in 1..Len(logs) |-> logs[i].data])

\* s without the newlines the program added
WithoutAdded(s) == SelectSeq(s, LAMBDA b : b # Newline)

\* s without the lines of text the program printed
Data(s) == SelectSeq(s, LAMBDA b : ~IsText(b))

\* the bytes of input that were read and passed to the two writes
Handled == Take(inp, Len(inp) - (IF pc = "write" THEN numberRead ELSE 0))

\* the first m bytes of the chunk c of the input
Piece(c, m) == Take(SubSeq(inp, c.off + 1, c.off + c.len), m)

\* the last byte of the chunk c of the input
LastByte(c) == inp[c.off + c.len]

\* the chunks tile the input in the order read
RECURSIVE LengthOf(_)
LengthOf(n) == IF n = 0 THEN 0 ELSE LengthOf(n - 1) + chunks[n].len
InOrder ==
    /\ \A i \in 1..Len(chunks) : chunks[i].off = LengthOf(i - 1)
    /\ Len(Handled) = LengthOf(Len(chunks))

\* the loop runs: a file was opened and the end of input was not seen
InLoop == pc \in {"read", "write", "check", "rotate"}

\* every write to a log file that was open stored its whole chunk
LogWritesComplete ==
    \A i \in 1..Len(chunks) : chunks[i].log # 0 => chunks[i].m2 = chunks[i].len

\* C1: the log files of the run, in the order of creation, hold exactly the
\* input (the newlines added at rotations apart): no byte of the input is
\* missing from them.  Stated for the runs in which every write to an open
\* log file is complete, where the only loss left is that of the chunks
\* written while no file is open.
C1_LogsHoldTheInput ==
    LogWritesComplete => WithoutAdded(Stored) = Handled

\* C2 as stated: standard output holds exactly the bytes read.
C2_OutputIsInput == Data(out) = Handled

\* what the writes to standard output have passed on of chunks 1..n
RECURSIVE Passed(_)
Passed(n) ==
    IF n = 0 THEN <<>>
    ELSE Passed(n - 1) \o Piece(chunks[n], chunks[n].m1)

\* C2: standard output holds, chunk by chunk in the order read, the first
\* m1 bytes of each chunk, m1 being what the write to standard output
\* returned (all of the chunk when that write is complete, and then all of
\* the input), whatever the log file's writes, the rotations and the purges
\* did.
C2_OutputIsWhatWasAccepted ==
    /\ InOrder
    /\ Data(out) = Passed(Len(chunks))
    /\ (\A i \in 1..Len(chunks) : chunks[i].m1 = chunks[i].len)
          => Data(out) = Handled

\* a run with a rotation and a failed write to the log file whose output is
\* the whole input
C2_Witness ==
    /\ Len(chunks) >= 2
    /\ Len(logs) >= 2
    /\ \E i \in 1..Len(chunks) : chunks[i].log # 0 /\ chunks[i].m2 < chunks[i].len
    /\ pc = "exit"
    /\ Data(out) = inp

\* C3: every chunk read is written to exactly one log file: there is a
\* file open for each chunk's write.
C3_EveryChunkInAFile ==
    \A i \in 1..Len(chunks) : chunks[i].log \in 1..Len(logs)

\* C4: after each chunk is written a rotation follows if and only if
\* now - createdAt >= maxAge, or bytesWritten >= maxSize and
\* now - createdAt >= 1; now is thisTime, createdAt is lastTime and
\* bytesWritten is total.
C4_RotatesIffDue ==
    [][pc = "check" =>
         /\ pc' \in {"rotate", "read"}
         /\ (pc' = "rotate") <=>
               \/ thisTime - lastTime >= ageLimit
               \/ (total >= sizeLimit /\ thisTime - lastTime >= 1)]_vars

\* a rotation for size alone, of a file one second old
C4_Witness ==
    /\ pc = "rotate"
    /\ thisTime - lastTime = 1
    /\ thisTime - lastTime < ageLimit
    /\ total = sizeLimit

\* once the first purge is over and the next file opened (or not), until
\* the file is closed
StablePoint == pc \in {"opened", "read", "write", "check", "rotate"}

\* the entries of d that unlink() can remove
Removable(d) == { x \in DOMAIN d : d[x].deletable }

\* C5 as stated: at most keepCount + 1 matching files at a stable point.
C5_AtMostKeepPlusOne ==
    StablePoint => Cardinality(DOMAIN dir) <= numberToKeep + 1

\* C5: at every stable point after a purge whose listing of the directory
\* succeeded, the directory holds at most keepCount + 1 matching entries,
\* those that cannot be deleted not counted.
C5_AtMostKeepPlusOneRemovable ==
    (StablePoint /\ listed) => Cardinality(Removable(dir)) <= numberToKeep + 1

\* after a rotation that purged a file of this run, keepCount + 1 entries
C5_Witness ==
    /\ pc = "read"
    /\ listed
    /\ Len(logs) >= 2
    /\ \E i \in 1..Len(logs) : logs[i].name \notin DOMAIN dir
    /\ Cardinality(Removable(dir)) = numberToKeep + 1

\* the names of d with at least keep names of d sorting after them
Oldest(d, keep) ==
    { x \in DOMAIN d :
        Cardinality({ y \in DOMAIN d : NameLess(x, y) }) >= keep }

\* C6 as stated: purge deletes exactly the n - keepCount lowest names.
C6_DeletesTheOldest ==
    [][pc = "purge" => DOMAIN dir' = (DOMAIN dir) \ Oldest(dir, numberToKeep)]_vars

\* C6: purge tries to delete exactly the n - keepCount lowest-sorted names
\* (none when n <= keepCount): those whose deletion succeeds are removed,
\* each of the others is reported, and the min(n, keepCount) highest-sorted
\* files remain untouched; when the directory cannot be listed nothing is
\* deleted.
C6_TriesTheOldest ==
    [][pc = "purge" =>
         LET tried == Oldest(dir, numberToKeep)
         IN  /\ Cardinality(tried) =
                  IF Cardinality(DOMAIN dir) > numberToKeep
                  THEN Cardinality(DOMAIN dir) - numberToKeep ELSE 0
             /\ IF listed'
                THEN /\ DOMAIN dir' = (DOMAIN dir) \ (tried \cap Removable(dir))
                     /\ Len(err') = Cardinality(tried \ Removable(dir))
                ELSE DOMAIN dir' = DOMAIN dir
             /\ \A x \in DOMAIN dir' : dir'[x] = dir[x]]_vars

\* a purge is over that deleted a file of this run and left one it could
\* not delete
C6_Witness ==
    /\ pc = "creat"
    /\ listed
    /\ \E i \in 1..Len(logs) : logs[i].name \notin DOMAIN dir
    /\ \E x \in DOMAIN dir : ~dir[x].deletable
    /\ Cardinality(DOMAIN dir) = numberToKeep + 1

\* the files a rotation closed, and the chunks written while a file was open
Rotated == { i \in 1..Len(logs) : logs[i].closed = "rotation" }
ChunksOf(i) == { j \in 1..Len(chunks) : chunks[j].log = i }
LastChunkOf(i) == CHOOSE j \in ChunksOf(i) : \A k \in ChunksOf(i) : k <= j
EndsALine(s) == s # <<>> /\ IsNewline(s[Len(s)])
Added(s) == { k \in 1..Len(s) : s[k] = Newline }

C8_NoLoopWithoutAFile == InLoop => fd \in isOpen

\* C9: in a logging run nothing but bytes of the input is written to
\* standard output.
C9_OnlyInputOnStdout ==
    started => \A k \in 1..Len(out) : ~IsText(out[k])

\* C10: the floors: after the options are read the policy has age >= 10,
\* size >= 20 and keep >= 1, a value below its floor giving the floor,
\* and no error.
C10_Floors ==
    [][(pc = "getopt" /\ pc' = "args") =>
         /\ ageLimit' >= 10 /\ (ageLimit < 10 => ageLimit' = 10)
         /\ numberToKeep' >= 1 /\ (numberToKeep < 1 => numberToKeep' = 1)
         /\ AsLong(sizeLimit) < 20 => sizeLimit' = 20
         /\ AsLong(sizeLimit) >= 20 => sizeLimit' = sizeLimit
         /\ exitCode' = exitCode]_vars

\* the argument of the option that is read next
NextArg == Head(opts).arg

\* arg is a number that fits a long, alone or followed by one character
\* of units
WellFormed(arg, units) ==
    LET r == ScanLong(arg)
    IN  /\ r.ok
        /\ r.mag <= LongMax
        /\ \/ r.next > Len(arg)
           \/ r.next = Len(arg) /\ arg[r.next] \in units

\* the multiplier the documentation gives for the qualifier of arg
Multiplier(arg) ==
    LET c == IF arg = <<>> THEN " " ELSE arg[Len(arg)]
    IN  CASE c = "m" -> 60 [] c = "h" -> 3600 [] c = "d" -> 86400
          [] c = "w" -> 604800 [] c = "K" -> 1000 [] c = "M" -> 1000000
          [] c = "G" -> 1000000000 [] OTHER -> 1

\* v is number x multiplier for the argument arg, and is at most max
IsProduct(v, arg, max) ==
    LET r == ScanLong(arg)
        k == Multiplier(arg)
    IN  /\ r.mag <= max \div k
        /\ v = (IF r.neg THEN 0 - r.mag ELSE r.mag) * k

\* C11: an --age argument that is a number, alone or followed by m, h, d
\* or w, is accepted and sets the age limit, before the floors, to
\* number x multiplier.
C11_AgeIsNumberTimesUnit ==
    [][(AtOption("a") /\ WellFormed(NextArg, {"m", "h", "d", "w"})) =>
          /\ pc' = "getopt"
          /\ IsProduct(ageLimit', NextArg, (IntMod \div 2) - 1)]_vars

\* arg has no leading number, or a character after the number that is
\* neither a blank nor one of units
Malformed(arg, units) ==
    LET r == ScanLong(arg)
    IN  \/ ~r.ok
        \/ \E i \in r.next..Len(arg) : arg[i] \notin units \cup {" "}

\* the option that is read next is an argument error
ArgumentError ==
    /\ pc = "getopt"
    /\ opts # <<>>
    /\ \/ OptChar(Head(opts)) = "?"
       \/ Head(opts).opt = "a" /\ Malformed(NextArg, {"m", "h", "d", "w"})
       \/ Head(opts).opt = "s" /\ Malformed(NextArg, {"K", "M", "G"})

\* the step prints the usage and returns 1, the directory and the log
\* files untouched
UsageAndExit ==
    /\ pc' = "exit"
    /\ exitCode' = 1
    /\ \E k \in 1..Len(out') : out'[k] = UsageText
    /\ dir' = dir
    /\ logs' = logs

\* C12 as stated: an argument error (no leading number, an unrecognized
\* trailing character, an unknown option, fewer than two positional
\* arguments) makes the program print the usage and return 1 at once.
C12_ArgumentErrorExits ==
    [][(ArgumentError \/ (pc = "args" /\ npos < 2)) => UsageAndExit]_vars

\* arg has no leading number, or the character right after the number is
\* neither a blank nor one of units
Rejected(arg, units) ==
    LET r == ScanLong(arg)
    IN  \/ ~r.ok
        \/ r.next <= Len(arg) /\ arg[r.next] \notin units \cup {" "}

\* the option that is read next is one the program rejects
RejectedOption ==
    /\ pc = "getopt"
    /\ opts # <<>>
    /\ \/ OptChar(Head(opts)) = "?"
       \/ Head(opts).opt = "a" /\ Rejected(NextArg, {"m", "h", "d", "w"})
       \/ Head(opts).opt = "s" /\ Rejected(NextArg, {"K", "M", "G"})

\* C12: when the options are read in order, the first --age/--size value
\* with no leading number or with a character right after the number that
\* is neither a blank nor a recognized unit, or the first unknown option,
\* or, all options accepted, fewer than two positional arguments, makes
\* the program print the usage and return 1 at once, the directory and the
\* log files untouched; what follows the qualifier is not looked at.
C12_RejectedArgumentExits ==
    [][(RejectedOption \/ (pc = "args" /\ npos < 2)) => UsageAndExit]_vars

\* the run ended at an --age value with a bad qualifier, after an option
\* that was accepted
C12_Witness ==
    /\ pc = "exit"
    /\ exitCode = 1
    /\ opts # <<>>
    /\ Head(opts).opt = "a"
    /\ ScanLong(NextArg).ok
    /\ Rejected(NextArg, {"m", "h", "d", "w"})
    /\ sizeLimit = 2000
    /\ out = <<ModifierText, UsageText>>

\* ------------------------------------------------------------------------
\* The directory
\* ------------------------------------------------------------------------
\* every prefix of the directory argument is a directory
AllDirs(t) == \A i \in 1..Len(t) : IsDir(t[i])

\* nothing stands in the way of making the directory: each prefix is a
\* directory or missing, and no missing one has to be made in a directory
\* that takes no entries
Makeable(t) ==
    \A i \in 1..Len(t) :
        /\ t[i] \in {"none", "dir", "rodir"}
        /\ (t[i] = "none" /\ i > 1) => t[i - 1] # "rodir"

\* what was there before is still what it was
Kept(t, u) == \A i \in 1..Len(t) : t[i] # "none" => u[i] = t[i]

\* C13: a start with a directory path that can be made makes every missing
\* prefix of it a directory (mkdir -p) and leaves the others alone; and when
\* the start has succeeded every prefix of the path is a directory and the
\* first log file is an entry of the directory.
C13_StartMakesTheDirectories ==
    [][/\ (pc = "mkdir" /\ Makeable(tree)) =>
             (pc' = "purge" /\ AllDirs(tree') /\ Kept(tree, tree'))
       /\ started' => AllDirs(tree')
       /\ (~started /\ started') =>
             (Len(logs') = 1 /\ fd' = logs'[1].name /\ fd' \in DOMAIN dir')]_vars

\* a start that made all three directories of a/b/c and the first file in it
C13_Witness ==
    /\ started
    /\ path = <<"a", "/", "b", "/", "c">>
    /\ tree = <<"made", "made", "made">>
    /\ Len(logs) = 1
    /\ fd \in DOMAIN dir

\* a prefix of the path is there and is not a directory: a regular file, or
\* a symbolic link to nothing
Blocked(t) == \E i \in 1..Len(t) : t[i] \in {"file", "link"}

\* the non-directory is a symbolic link to nothing at the end of the path
LinkAtEnd(t) == t # <<>> /\ t[Len(t)] = "link"

\* C14 (as stated): when a prefix of the directory path is a non-directory
\* the start ends at mkdir_parents with exit status 2: nothing is made, no
\* purge runs and no log file is created.
C14_NonDirectoryStopsBeforePurge ==
    [][(pc = "mkdir" /\ Blocked(tree)) =>
          (pc' = "exit" /\ exitCode' = 2 /\ tree' = tree /\ logs' = <<>>)]_vars

\* C14: when a prefix of the directory path is a non-directory the start
\* fails with exit status 2 and makes nothing: no directory, no log file,
\* no deletion; it fails at mkdir_parents, before any purge, unless the
\* non-directory is a symbolic link to nothing at the end of the path, and
\* then it fails when the first file cannot be created.
C14_NonDirectoryFailsTheStart ==
    [][Blocked(tree) =>
          /\ tree' = tree /\ logs' = <<>> /\ dir' = dir /\ ~started'
          /\ pc' = "exit" => exitCode' = 2
          /\ (pc = "mkdir" /\ ~LinkAtEnd(tree)) => pc' = "exit"
          /\ pc = "opened" => pc' = "exit"]_vars

\* a start on a/b/c where a/b is a regular file has ended with status 2
C14_Witness ==
    /\ pc = "exit"
    /\ exitCode = 2
    /\ path = <<"a", "/", "b", "/", "c">>
    /\ tree = <<"dir", "file", "none">>
    /\ logs = <<>>
    /\ err = <<PerrorText, PerrorText>>

\* ------------------------------------------------------------------------
\* Rotation by age
\* ------------------------------------------------------------------------
\* the age of the log file has reached the age limit: while read() waited
\* (seen when it returns, with a chunk or with the end of the input) or by
\* the time of the test
Aged ==
    /\ started
    /\ fd # BadFd
    /\ pc \in {"write", "check", "exit"}
    /\ clock - lastTime >= ageLimit

\* C15 (as stated): once the file's age has reached the age limit the file
\* is rotated, whatever its size.
C15_AgedFileIsRotated == Aged ~> (pc = "rotate")

\* C15: the age alone brings the rotation about at the test that follows a
\* chunk's write: when there thisTime - lastTime >= ageLimit the rotation
\* starts whatever total is, the file is closed and the next one is asked
\* for.
C15_AgeAloneRotatesAtTheTest ==
    [][/\ (pc = "check" /\ thisTime - lastTime >= ageLimit) => pc' = "rotate"
       /\ pc = "rotate" => (isOpen' = {} /\ pc' = "purge")
       /\ (pc = "purge" /\ started) => pc' = "creat"]_vars

\* a rotation of a file that is under the size limit
C15_Witness ==
    /\ pc = "rotate"
    /\ thisTime - lastTime >= ageLimit
    /\ total > 0
    /\ total < sizeLimit
    /\ fd \in isOpen

C17_BytesAreYoungerThanTheLimit ==
    [][(pc = "write" /\ dir' # dir) => clock - lastTime < ageLimit]_vars

\* ------------------------------------------------------------------------
\* Failures of the purge
\* ------------------------------------------------------------------------
\* C18: a purge never ends the run: whether the listing fails, or an
\* unlink() fails, the step goes on to creat; when the listing succeeded
\* every candidate that can be deleted is gone, those after a failed one
\* too, and when it failed the directory is as it was; creat is followed by
\* the test of its result, and at a rotation by the reset of the counters
\* (lastTime, total) and the next read.
C18_PurgeFailureIsNotFatal ==
    [][/\ pc = "purge" =>
             /\ pc' = "creat"
             /\ exitCode' = exitCode
             /\ IF listed'
                THEN \A v \in Oldest(dir, numberToKeep) \cap Removable(dir) :
                        v \notin DOMAIN dir'
                ELSE dir' = dir
       /\ pc = "creat" => pc' = "opened"
       /\ (pc = "opened" /\ started) =>
             (pc' = "read" /\ total' = 0 /\ lastTime' = clock')]_vars

\* a rotation is over whose purge could not delete the oldest file and
\* deleted the next one; the new file is open and the counters are reset
C18_Witness ==
    /\ pc = "read"
    /\ Len(logs) = 2
    /\ fd \in isOpen
    /\ total = 0
    /\ lastTime = clock
    /\ Old1 \in DOMAIN dir
    /\ ~dir[Old1].deletable
    /\ Old2 \notin DOMAIN dir

\* ------------------------------------------------------------------------
\* The end of the input
\* ------------------------------------------------------------------------
\* C19: a read() that returns zero, or a negative result that is not an
\* interrupt, ends the loop: the step writes no byte to standard output or
\* to a file, deletes and creates nothing, reports the read error if there
\* was one, leaves no file open and ends the process; and every run that
\* has started its loop comes to that end, the input being finite.
C19_EndOfInputEndsTheRun ==
    /\ [][(pc = "read" /\ pc' \notin {"read", "write"}) =>
             /\ pc' = "exit"
             /\ numberRead' \in {0, 0 - 1}
             /\ err' = IF numberRead' = 0 THEN <<>> ELSE <<PerrorText>>
             /\ out' = out /\ dir' = dir /\ chunks' = chunks
             /\ Len(logs') = Len(logs)
             /\ \A i \in 1..Len(logs) : logs'[i].data = logs[i].data
             /\ isOpen' = {}]_vars
    /\ started ~> (pc = "exit" /\ isOpen = {})

\* the run has ended on a read error after a chunk was written: the error
\* is reported and the file is closed
C19_Witness ==
    /\ pc = "exit"
    /\ started
    /\ numberRead = 0 - 1
    /\ err = <<PerrorText>>
    /\ Len(chunks) >= 1
    /\ logs[Len(logs)].closed = "end"
    /\ isOpen = {}

\* ------------------------------------------------------------------------
\* The open file
\* ------------------------------------------------------------------------
\* C20: whenever a chunk is read or written, from the first file's opening
\* to the close at the end of the input, exactly one log file is open for
\* writing: never two, never none.
C20_ExactlyOneFileOpen ==
    pc \in {"read", "write"} => Cardinality(isOpen) = 1

\* ------------------------------------------------------------------------
\* The names of the files
\* ------------------------------------------------------------------------
\* C21: the files a run creates have strictly ascending names, in the
\* order of their creation: no name is used twice and the order of the
\* names is the order of creation.
C21_NamesAscendInCreationOrder ==
    \A i \in 1..Len(logs) : \A j \in 1..Len(logs) :
        i < j => NameLess(logs[i].name, logs[j].name)

\* two files created one second apart, on either side of a full minute
C21_Witness ==
    \E i \in 1..(Len(logs) - 1) :
        /\ logs[i].name = FileName(59)
        /\ logs[i + 1].name = FileName(60)
        /\ logs[i].closed = "rotation"

\* ------------------------------------------------------------------------
\* The reset at a rotation
\* ------------------------------------------------------------------------
\* C22 (as stated): after a rotation total is 0 and lastTime is the time
\* (thisTime) the decision to rotate was taken with.
C22_ResetToTheTimeOfTheTest ==
    [][(pc = "opened" /\ started) =>
          (total' = 0 /\ lastTime' = thisTime)]_vars

\* C22: after a rotation total is 0 and lastTime is a reading of the clock
\* taken when nextFile has returned: it is the time of the decision or
\* later, and not before the time in the name of the new file.
C22_ResetToALaterReading ==
    [][(pc = "opened" /\ started) =>
          /\ total' = 0
          /\ lastTime' = clock'
          /\ lastTime' >= thisTime
          /\ fd # BadFd => ~NameLess(FileName(lastTime'), fd)]_vars

\* a rotation is over that has stamped the new file a second after the
\* time of the test
C22_Witness ==
    /\ pc = "read"
    /\ Len(logs) >= 2
    /\ fd \in isOpen
    /\ total = 0
    /\ lastTime = thisTime + 1
    /\ fd = FileName(thisTime)

\* ------------------------------------------------------------------------
\* The byte count
\* ------------------------------------------------------------------------
\* C23: while a file is open total is the number of bytes of input stored
\* in it since it was opened, whatever the writes to it returned (and so
\* never decreases between two rotations).
C23_TotalIsWhatTheFileHolds ==
    (started /\ pc \in {"read", "write", "check"} /\ fd \in isOpen) =>
        total = Len(logs[Len(logs)].data)

\* ------------------------------------------------------------------------
\* The write mis-match
\* ------------------------------------------------------------------------
\* C24: when the two writes of a chunk return different counts exactly one
\* message goes to standard error (none when they agree), and the run goes
\* on: to the test for a rotation and from there to the rotation or the
\* next read, never to the exit.
C24_MismatchIsReportedAndNotFatal ==
    [][/\ pc = "write" =>
             /\ pc' = "check"
             /\ exitCode' = exitCode
             /\ Len(chunks') = Len(chunks) + 1
             /\ LET c == chunks'[Len(chunks')]
                IN  err' = IF c.m1 # c.m2 THEN <<MismatchText>> ELSE <<>>
       /\ pc = "check" => (pc' \in {"read", "rotate"} /\ exitCode' = exitCode)]_vars

\* the chunk after one whose writes did not agree has been read
C24_Witness ==
    /\ pc = "write"
    /\ Len(chunks) = 1
    /\ chunks[1].m1 = chunks[1].len
    /\ chunks[1].m2 = chunks[1].len - 1
    /\ fd \in isOpen

\* ------------------------------------------------------------------------
\* What the purge looks at
\* ------------------------------------------------------------------------
\* the name is the prefix, "_", 19 characters and ".log"
IsLogName(name) ==
    /\ Len(name) = Len(Prefix) + 1 + 19 + 4
    /\ \A i \in 1..Len(Prefix) : name[i] = Prefix[i]
    /\ name[Len(Prefix) + 1] = 95
    /\ \A i \in 1..4 : name[Len(name) - 4 + i] = DotLog[i]

\* the entries of d with such a name
LogNames(d) == { x \in DOMAIN d : IsLogName(x) }

\* C25: a purge leaves every entry whose name is not <prefix>_, 19
\* characters and .log as it is, and every subdirectory; the entries with
\* such a name, whatever the 19 characters, are the ones counted: the purge
\* removes those of them that have numberToKeep or more of them sorting
\* after them and that unlink() can remove.
C25_PurgeTouchesLogNamesOnly ==
    [][pc = "purge" =>
         /\ \A x \in DOMAIN dir :
               (~IsLogName(x) \/ dir[x].kind = "dir") =>
                   (x \in DOMAIN dir' /\ dir'[x] = dir[x])
         /\ listed' =>
               DOMAIN dir' = (DOMAIN dir) \
                  { x \in LogNames(dir) :
                      /\ dir[x].deletable
                      /\ Cardinality({ y \in LogNames(dir) : NameLess(x, y) })
                            >= numberToKeep }]_vars

\* after a purge with --keep 1 on a directory that held all the entries:
\* the two log files of earlier runs are gone, the file with 19 x's was the
\* one kept, and everything else is there
C25_Witness ==
    /\ pc = "creat"
    /\ listed
    /\ numberToKeep = 1
    /\ DOMAIN dir = {OddName, OtherPrefix, OtherLength, OtherSuffix, SubLog, SubOther}

\* ------------------------------------------------------------------------
\* The file a rotation closes
\* ------------------------------------------------------------------------
\* C26: the purge of a rotation does not delete the file that rotation has
\* just closed (fd still names it), whatever else the directory holds.
C26_ClosedFileSurvivesItsRotation ==
    [][(pc = "purge" /\ started /\ fd # BadFd) => fd \in DOMAIN dir']_vars

\* ------------------------------------------------------------------------
\* The last line of a file
\* ------------------------------------------------------------------------
\* C27: every log file that has been closed, by a rotation or at the end
\* of the input, and is not empty ends with a newline.  Stated for the runs
\* in which every write to a log file stored all it was given.
C27_ClosedFilesEndALine ==
    (LogWritesComplete /\ \A i \in 1..Len(logs) : logs[i].nl \in {<<>>, <<1>>}) =>
        \A i \in 1..Len(logs) :
            (logs[i].closed # "no" /\ logs[i].data # <<>>) => EndsALine(logs[i].data)

\* ------------------------------------------------------------------------
\* After a rotation that could not create its file
\* ------------------------------------------------------------------------
\* C28: when the creation of the file failed at a rotation every later
\* chunk still goes to standard output, and the test after a chunk read a
\* second or more after the failed attempt starts another rotation, which
\* asks for a new file again.
C28_RetriesAfterAFailedCreation ==
    [][/\ (pc = "write" /\ started /\ fd = BadFd) =>
             out' = out \o Take(buffer, chunks'[Len(chunks')].m1)
       /\ (pc = "check" /\ started /\ fd = BadFd /\ thisTime - lastTime >= 1) =>
             pc' = "rotate"
       /\ (pc = "rotate" /\ fd = BadFd) => pc' = "purge"
       /\ (pc = "purge" /\ started) => pc' = "creat"]_vars
====
